---- MODULE Spec2Model ----
(***************************************************************************)
(* Connection lifecycle of terraform-provider-uptimekuma:                  *)
(*   internal/client/client.go  New, newClientDirect, Client.Disconnect    *)
(*   internal/client/pool.go    Pool (GetOrCreate, configMatches, Release, *)
(*                              Close), GetGlobalPool, CloseGlobalPool     *)
(* Callers are goroutines.  A call is issued in one step (Call...) and the *)
(* body that runs under p.mu is a later step, so that calls blocked on the *)
(* mutex are states of the model.  The retry loop of newClientDirect is    *)
(* one step per connect attempt and one per sleep.                         *)
(***************************************************************************)
EXTENDS Integers, Sequences, FiniteSets, TLC

\* ------------------------------------------------------------------ bounds
NumCallers == 2
MaxOps == 3
MaxTags == 2

\* ------------------------------------------------------- program constants
maxRetries == 5

Callers == 1..NumCallers
Nil == 0

\* The Config values the callers pass (client.go Config).  A config is
\* referred to by its index in this table; index 0 is the nil pointer.
CfgTable ==
    << [BaseURL |-> "http://x", Username |-> "a", Password |-> "b", EnableConnectionPool |-> TRUE],
       [BaseURL |-> "http://x", Username |-> "a", Password |-> "b", EnableConnectionPool |-> FALSE],
       [BaseURL |-> "http://x", Username |-> "a", Password |-> "c", EnableConnectionPool |-> TRUE],
       [BaseURL |-> "",         Username |-> "a", Password |-> "b", EnableConnectionPool |-> TRUE],
       [BaseURL |-> "",         Username |-> "a", Password |-> "b", EnableConnectionPool |-> FALSE] >>

\* The configs passed where the environment variable is "true": the last
\* config differs from the one before it only in the flag, which is then
\* without effect.
ConfigIds == 1..(Len(CfgTable) - 1)
\* The configs passed to New where its validation and its pooling decision
\* are observed: with and without endpoint, with the flag set and unset.
NewConfigs == {c \in 1..Len(CfgTable) : CfgTable[c].Password = "b"}
\* Values of UPTIMEKUMA_ENABLE_CONNECTION_POOL: "true", unset, and set to
\* something else.
EnvValues == {"true", "", "1"}

Sessions == 1..MaxOps

VARIABLES
    env,          \* os.Getenv("UPTIMEKUMA_ENABLE_CONNECTION_POOL")
    globalPool,   \* pool.go globalPool: FALSE = nil, TRUE = constructed
    mu,           \* Pool.mu: Nil when free, else the caller holding it
    client,       \* Pool.client: Nil or the pooled session
    config,       \* Pool.config: Nil or the config stored with the session
    refs,         \* Pool.refs
    pc,           \* per caller: where it is
    arg,          \* per caller: the config of the call in progress
    i,            \* per caller: loop variable i of newClientDirect
    pooled,       \* per caller: newClientDirect was entered from GetOrCreate
    ret,          \* per caller: what its last completed call returned
    nextSession,  \* number of sessions kuma.New has produced so far
    disc,         \* per session: number of Disconnect calls made on it
    lastDiscErr,  \* whether the latest Disconnect call returned an error
    ops,          \* number of calls issued so far
    factoryCalls, \* number of newClientDirect invocations made by GetOrCreate
    epochLogins,  \* successful connects made by the pool since it was last EMPTY
    acq,          \* per caller: pooled acquisitions it has not released
    raced,        \* at some moment every caller was inside an acquire at once
    misuse,       \* some Release was made by a caller holding no acquisition,
                  \* or some Close ran while a caller still held one
    connErr,      \* per caller: variable err of newClientDirect
    obs,          \* what was observed of the newClientDirect call in progress
                  \* or last completed (recorded by FactoryConnect/FactorySleep)
    globalPoolOnce, \* pool.go globalPoolOnce: "new", "running" (its function is
                  \* being executed) or "done"; followed only where GetGlobalPool
                  \* is taken step by step, elsewhere GetGlobalPool is one step
    pools,        \* number of Pool values GetGlobalPool has constructed
    main,         \* where TestMain of the provider's test binary is
    read,         \* StatusPageResource.Read: the Terraform state (tf), the call
                  \* in progress (its position, what the two API calls return,
                  \* sp.PublicGroupList) and the state the call started from
    auth,         \* the AuthClient, the clock, and per goroutine its GetToken
                  \* call in progress and what its last call returned
    mon           \* MonitorResource.Update: the tags in prior state and plan,
                  \* the tags the remote monitor carries, where the call is

poolVars == <<client, config, refs>>
callerVars == <<pc, arg, i, pooled, ret, connErr>>
sessionVars == <<nextSession, disc, lastDiscErr>>
historyVars == <<ops, factoryCalls, epochLogins, acq, raced, misuse>>
procVars == <<globalPoolOnce, pools, main, read, auth, mon>>
vars == <<env, globalPool, mu, poolVars, callerVars, sessionVars, historyVars, obs, procVars>>

\* ------------------------------------------------------------ return values
\* cause and attempts are the content of an error that newClientDirect
\* returned: the connect error it wraps and the attempt count it reports.
Result(kind, s) == [kind |-> kind, session |-> s, cause |-> "nil", attempts |-> 0]
NoResult == Result("none", Nil)

RECURSIVE SumAcq(_)
SumAcq(S) ==
    IF S = {} THEN 0
    ELSE LET p == CHOOSE x \in S : TRUE IN acq[p] + SumAcq(S \ {p})

\* Two configs are equivalent iff endpoint, username and password all match.
Equivalent(c, d) ==
    /\ CfgTable[c].BaseURL = CfgTable[d].BaseURL
    /\ CfgTable[c].Username = CfgTable[d].Username
    /\ CfgTable[c].Password = CfgTable[d].Password

\* Every caller other than p is inside New/GetOrCreate on the pool.
AllOthersAcquiring(p) ==
    \A q \in Callers \ {p} :
        \/ pc[q] = "GetOrCreate"
        \/ pc[q] \in {"connect", "sleep"} /\ pooled[q]

\* A call returns: the caller is idle again and the locals of the call are gone.
Return(p) ==
    /\ pc' = [pc EXCEPT ![p] = "idle"]
    /\ arg' = [arg EXCEPT ![p] = Nil]
    /\ i' = [i EXCEPT ![p] = 0]
    /\ pooled' = [pooled EXCEPT ![p] = FALSE]

\* What has been observed of a newClientDirect call: the kuma.New attempts
\* made and failed, the error of the first failed one, the result of the last
\* one, the time.Sleep calls made and
\* the length (ms) and jitter (permille) of the last one, and what the call
\* returned ("none" while it runs).
NoObs ==
    [attempts |-> 0, fails |-> 0, sleeps |-> 0, firstErr |-> "nil", lastErr |-> "nil",
     lastSession |-> Nil, sleepMs |-> 0, jitter |-> 0, returned |-> "none"]

\* No Read in progress, no public_group_list in the Terraform state.
NoRead ==
    [phase |-> "idle", tf |-> <<>>, before |-> <<>>, sp |-> <<>>,
     api |-> <<>>, cacheErr |-> FALSE, cachePresent |-> FALSE, cache |-> <<>>]

\* Times are seconds since the zero time.Time; the process starts at
\* StartTime, long after it.
ZeroTime == 0
StartTime == 100

\* What a GetToken call returned: kind "token" (a token and a nil error),
\* "ctx" (ctx.Err()) or "failed" (the error of line 235, which states a
\* number of attempts and wraps the error cause); "none" before any return.
AuthResult(kind, t, cause, n) == [kind |-> kind, token |-> t, cause |-> cause, attempts |-> n]

\* NewAuthClient, lines 157-165: token "" (0), tokenExpiry and
\* lastAuthAttempt the zero time, mutex unlocked; no goroutine in a call.
NoAuth ==
    [now |-> StartTime, token |-> 0, tokenExpiry |-> ZeroTime, mutex |-> Nil,
     lastAuthAttempt |-> ZeroTime,
     pc |-> [g \in Callers |-> "idle"],
     tok |-> [g \in Callers |-> 0],
     expiry |-> [g \in Callers |-> ZeroTime],
     attempt |-> [g \in Callers |-> 0],
     lastErr |-> [g \in Callers |-> <<>>],
     wake |-> [g \in Callers |-> ZeroTime],
     cancelled |-> [g \in Callers |-> FALSE],
     sent |-> [g \in Callers |-> 0],
     ret |-> [g \in Callers |-> AuthResult("none", 0, <<>>, 0)],
     calls |-> 0, requests |-> 0]

\* No Update yet: a monitor without tags in state, plan and remotely.
NoUpdate ==
    [phase |-> "idle", stateTags |-> <<>>, planTags |-> <<>>, remote |-> {}, todo |-> {}]

InitPool ==
    /\ globalPool = FALSE
    /\ mu = Nil
    /\ client = Nil
    /\ config = Nil
    /\ refs = 0
    /\ pc = [p \in Callers |-> "idle"]
    /\ arg = [p \in Callers |-> Nil]
    /\ i = [p \in Callers |-> 0]
    /\ pooled = [p \in Callers |-> FALSE]
    /\ ret = [p \in Callers |-> NoResult]
    /\ nextSession = 0
    /\ disc = [s \in Sessions |-> 0]
    /\ lastDiscErr = FALSE
    /\ ops = 0
    /\ factoryCalls = 0
    /\ epochLogins = 0
    /\ acq = [p \in Callers |-> 0]
    /\ raced = FALSE
    /\ misuse = FALSE
    /\ connErr = [p \in Callers |-> "nil"]
    /\ obs = NoObs
    /\ globalPoolOnce = "new"
    /\ pools = 0
    /\ main = "start"
    /\ read = NoRead
    /\ auth = NoAuth
    /\ mon = NoUpdate

\* The registry lives in the acceptance-test process: TestMain sets
\* UPTIMEKUMA_ENABLE_CONNECTION_POOL to "true" before any client is created.
Init ==
    /\ env = "true"
    /\ InitPool

\* ------------------------------------------------------------------ pool.go
\* p.mu.Lock() returns only when no other caller holds the mutex.
MuFree_NoLock == TRUE
MuFree == mu = Nil

configMatches_WithFlag(c) ==
    IF config = Nil THEN FALSE
    ELSE CfgTable[config] = CfgTable[c]
configMatches_UrlOnly(c) ==
    IF config = Nil THEN FALSE
    ELSE CfgTable[config].BaseURL = CfgTable[c].BaseURL
configMatches(c) ==
    IF config = Nil THEN FALSE
    ELSE /\ CfgTable[config].BaseURL = CfgTable[c].BaseURL
         /\ CfgTable[config].Username = CfgTable[c].Username
         /\ CfgTable[config].Password = CfgTable[c].Password

\* client.go New, lines 42-46: config flag first, environment as fallback.
poolEnabled(c) ==
    IF CfgTable[c].EnableConnectionPool THEN TRUE ELSE env = "true"

\* New(config), lines 34-56, up to the call of GetOrCreate or newClientDirect.
NewCall_NoValidation(p, c) ==
    /\ pc[p] = "idle"
    /\ ops < MaxOps
    /\ ops' = ops + 1
    /\ IF poolEnabled(c)
       THEN /\ globalPool' = TRUE
            /\ pc' = [pc EXCEPT ![p] = "GetOrCreate"]
            /\ arg' = [arg EXCEPT ![p] = c]
            /\ raced' = (raced \/ AllOthersAcquiring(p))
            /\ UNCHANGED <<i, pooled, ret>>
       ELSE /\ pc' = [pc EXCEPT ![p] = "connect"]
            /\ arg' = [arg EXCEPT ![p] = c]
            /\ i' = [i EXCEPT ![p] = 0]
            /\ pooled' = [pooled EXCEPT ![p] = FALSE]
            /\ UNCHANGED <<globalPool, ret, raced>>
    /\ UNCHANGED <<env, mu, poolVars, sessionVars, factoryCalls, epochLogins, acq, misuse, connErr, procVars>>
NewCall(p, c) ==
    /\ pc[p] = "idle"
    /\ ops < MaxOps
    /\ ops' = ops + 1
    /\ IF CfgTable[c].BaseURL = ""
       THEN /\ ret' = [ret EXCEPT ![p] = Result("base_url_required", Nil)]
            /\ UNCHANGED <<globalPool, pc, arg, i, pooled, raced>>
       ELSE IF poolEnabled(c)
       THEN /\ globalPool' = TRUE
            /\ pc' = [pc EXCEPT ![p] = "GetOrCreate"]
            /\ arg' = [arg EXCEPT ![p] = c]
            /\ raced' = (raced \/ AllOthersAcquiring(p))
            /\ UNCHANGED <<i, pooled, ret>>
       ELSE /\ pc' = [pc EXCEPT ![p] = "connect"]
            /\ arg' = [arg EXCEPT ![p] = c]
            /\ i' = [i EXCEPT ![p] = 0]
            /\ pooled' = [pooled EXCEPT ![p] = FALSE]
            /\ UNCHANGED <<globalPool, ret, raced>>
    /\ UNCHANGED <<env, mu, poolVars, sessionVars, factoryCalls, epochLogins, acq, misuse, connErr, procVars>>

\* A caller issues New(config).
CallNew(p, c) ==
    /\ NewCall(p, c)
    /\ UNCHANGED obs

\* A caller issues GetGlobalPool().GetOrCreate(config).
CallGetOrCreate(p, c) ==
    /\ pc[p] = "idle"
    /\ ops < MaxOps
    /\ ops' = ops + 1
    /\ globalPool' = TRUE
    /\ pc' = [pc EXCEPT ![p] = "GetOrCreate"]
    /\ arg' = [arg EXCEPT ![p] = c]
    /\ raced' = (raced \/ AllOthersAcquiring(p))
    /\ UNCHANGED <<env, mu, poolVars, i, pooled, ret, sessionVars, factoryCalls, epochLogins, acq, misuse, connErr, obs, procVars>>

\* Pool.GetOrCreate, lines 40-58: lock, then either answer from the slot or
\* enter newClientDirect with the mutex held.
GetOrCreate_EvictOnMismatch(p) ==
    /\ pc[p] = "GetOrCreate"
    /\ MuFree
    /\ IF client # Nil
       THEN /\ IF ~configMatches(arg[p])
               THEN /\ ret' = [ret EXCEPT ![p] = Result("config_mismatch", Nil)]
                    /\ disc' = [disc EXCEPT ![client] = @ + 1]
                    /\ client' = Nil
                    /\ config' = Nil
                    /\ refs' = 0
                    /\ epochLogins' = 0
                    /\ UNCHANGED acq
               ELSE /\ refs' = refs + 1
                    /\ ret' = [ret EXCEPT ![p] = Result("ok", client)]
                    /\ acq' = [acq EXCEPT ![p] = @ + 1]
                    /\ UNCHANGED <<client, config, disc, epochLogins>>
            /\ Return(p)
            /\ UNCHANGED <<mu, factoryCalls>>
       ELSE /\ mu' = p
            /\ pc' = [pc EXCEPT ![p] = "connect"]
            /\ i' = [i EXCEPT ![p] = 0]
            /\ pooled' = [pooled EXCEPT ![p] = TRUE]
            /\ factoryCalls' = factoryCalls + 1
            /\ UNCHANGED <<client, config, disc, epochLogins, refs, ret, acq, arg>>
    /\ UNCHANGED <<env, globalPool, nextSession, lastDiscErr, ops, raced, misuse, connErr, obs, procVars>>
GetOrCreate_NoIncrement(p) ==
    /\ pc[p] = "GetOrCreate"
    /\ MuFree
    /\ IF client # Nil
       THEN /\ IF ~configMatches(arg[p])
               THEN /\ ret' = [ret EXCEPT ![p] = Result("config_mismatch", Nil)]
                    /\ UNCHANGED <<refs, acq>>
               ELSE /\ refs' = refs
                    /\ ret' = [ret EXCEPT ![p] = Result("ok", client)]
                    /\ acq' = [acq EXCEPT ![p] = @ + 1]
            /\ Return(p)
            /\ UNCHANGED <<mu, factoryCalls>>
       ELSE /\ mu' = p
            /\ pc' = [pc EXCEPT ![p] = "connect"]
            /\ i' = [i EXCEPT ![p] = 0]
            /\ pooled' = [pooled EXCEPT ![p] = TRUE]
            /\ factoryCalls' = factoryCalls + 1
            /\ UNCHANGED <<refs, ret, acq, arg>>
    /\ UNCHANGED <<env, globalPool, client, config, sessionVars, ops, epochLogins, raced, misuse, connErr, obs, procVars>>
GetOrCreate(p) ==
    /\ pc[p] = "GetOrCreate"
    /\ MuFree
    /\ IF client # Nil
       THEN /\ IF ~configMatches(arg[p])
               THEN /\ ret' = [ret EXCEPT ![p] = Result("config_mismatch", Nil)]
                    /\ UNCHANGED <<refs, acq>>
               ELSE /\ refs' = refs + 1
                    /\ ret' = [ret EXCEPT ![p] = Result("ok", client)]
                    /\ acq' = [acq EXCEPT ![p] = @ + 1]
            /\ Return(p)
            /\ UNCHANGED <<mu, factoryCalls>>
       ELSE /\ mu' = p
            /\ pc' = [pc EXCEPT ![p] = "connect"]
            /\ i' = [i EXCEPT ![p] = 0]
            /\ pooled' = [pooled EXCEPT ![p] = TRUE]
            /\ factoryCalls' = factoryCalls + 1
            /\ UNCHANGED <<refs, ret, acq, arg>>
    /\ UNCHANGED <<env, globalPool, client, config, sessionVars, ops, epochLogins, raced, misuse, connErr, obs, procVars>>

\* Pool.GetOrCreate, lines 59-68, after newClientDirect returned.
\* Success: store the session, unlock (deferred) and return it.
PoolStore_NoConfig(p, s) ==
    /\ client' = s
    /\ config' = config
    /\ refs' = 1
    /\ mu' = Nil
    /\ epochLogins' = epochLogins + 1
    /\ acq' = [acq EXCEPT ![p] = @ + 1]
    /\ ret' = [ret EXCEPT ![p] = Result("ok", s)]
PoolStore_ZeroRefs(p, s) ==
    /\ client' = s
    /\ config' = arg[p]
    /\ refs' = 0
    /\ mu' = Nil
    /\ epochLogins' = epochLogins + 1
    /\ acq' = [acq EXCEPT ![p] = @ + 1]
    /\ ret' = [ret EXCEPT ![p] = Result("ok", s)]
PoolStore(p, s) ==
    /\ client' = s
    /\ config' = arg[p]
    /\ refs' = 1
    /\ mu' = Nil
    /\ epochLogins' = epochLogins + 1
    /\ acq' = [acq EXCEPT ![p] = @ + 1]
    /\ ret' = [ret EXCEPT ![p] = Result("ok", s)]

\* Failure: wrap the error e that newClientDirect returned, unlock
\* (deferred), leave the slot alone.
PoolFail_KeepsLock(p, e) ==
    /\ ret' = [ret EXCEPT ![p] = [e EXCEPT !.kind = "pooled_connection_failed"]]
    /\ mu' = mu
    /\ UNCHANGED <<client, config, refs, epochLogins, acq>>
PoolFail_CachesConfig(p, e) ==
    /\ ret' = [ret EXCEPT ![p] = [e EXCEPT !.kind = "pooled_connection_failed"]]
    /\ mu' = Nil
    /\ config' = arg[p]
    /\ UNCHANGED <<client, refs, epochLogins, acq>>
PoolFail(p, e) ==
    /\ ret' = [ret EXCEPT ![p] = [e EXCEPT !.kind = "pooled_connection_failed"]]
    /\ mu' = Nil
    /\ UNCHANGED <<client, config, refs, epochLogins, acq>>

\* ---------------------------------------------------------------- client.go
\* The kinds of error kuma.New returns; "nil" is success.
ErrKinds == {"rate_limit", "auth", "network"}
\* Where the kind of the error does not matter, one kind stands for all.
SomeError == {"error"}

\* newClientDirect, line 100: the error returned when the loop is left.
ExhaustedError(e) ==
    [kind |-> "connect_exhausted", session |-> Nil, cause |-> e, attempts |-> maxRetries + 1]

\* newClientDirect, line 71: k, err = kuma.New(...) assigns err on every attempt.
AssignErr_KeepFirst(old, e) == IF old = "nil" THEN e ELSE old
AssignErr(old, e) == e

\* newClientDirect, line 78: the loop is left after the attempt with index maxRetries.
\* The error is not consulted.
LastAttempt_OneLate(n, e) == n = maxRetries + 1
LastAttempt_OneEarly(n, e) == n >= maxRetries - 1
LastAttempt_AuthIsFatal(n, e) == n = maxRetries \/ e = "auth"
LastAttempt(n, e) == n = maxRetries

\* newClientDirect, lines 72-76: return &Client{Kuma: k}, nil, to New or to
\* GetOrCreate, where k is the session s that kuma.New just produced.
ReturnClient_Shadowed(p, s) ==
    IF pooled[p]
    THEN PoolStore(p, Nil)
    ELSE /\ ret' = [ret EXCEPT ![p] = Result("ok", Nil)]
         /\ UNCHANGED <<mu, poolVars, epochLogins, acq>>
ReturnClient_AlwaysPooled(p, s) == PoolStore(p, s)
ReturnClient(p, s) ==
    IF pooled[p]
    THEN PoolStore(p, s)
    ELSE /\ ret' = [ret EXCEPT ![p] = Result("ok", s)]
         /\ UNCHANGED <<mu, poolVars, epochLogins, acq>>

\* newClientDirect, lines 70-80 and 100: one kuma.New attempt whose result is
\* e ("nil": a session; else an error of kind e).
ConnectWith(p, e) ==
    /\ pc[p] = "connect"
    /\ IF e = "nil"
       THEN /\ nextSession' = nextSession + 1
            /\ Return(p)
            /\ connErr' = [connErr EXCEPT ![p] = "nil"]
            /\ ReturnClient(p, nextSession + 1)
       ELSE IF LastAttempt(i[p], e)
       THEN /\ Return(p)
            /\ connErr' = [connErr EXCEPT ![p] = "nil"]
            /\ IF pooled[p]
               THEN PoolFail(p, ExhaustedError(AssignErr(connErr[p], e)))
               ELSE /\ ret' = [ret EXCEPT ![p] = ExhaustedError(AssignErr(connErr[p], e))]
                    /\ UNCHANGED <<mu, poolVars, epochLogins, acq>>
            /\ UNCHANGED nextSession
       ELSE /\ pc' = [pc EXCEPT ![p] = "sleep"]
            /\ connErr' = [connErr EXCEPT ![p] = AssignErr(@, e)]
            /\ UNCHANGED <<mu, poolVars, arg, i, pooled, ret, nextSession, epochLogins, acq>>
    /\ UNCHANGED <<env, globalPool, disc, lastDiscErr, ops, factoryCalls, raced, misuse, procVars>>

\* The connect attempt where the kind of a failure is not told apart.
Connect(p) ==
    /\ \E e \in {"nil"} \cup SomeError : ConnectWith(p, e)
    /\ UNCHANGED obs

\* newClientDirect, lines 82-98: the backoff sleep, then the next iteration.
Backoff_UnderLock(p) ==
    /\ pc[p] = "sleep"
    /\ (mu = Nil \/ mu = p)
    /\ pc' = [pc EXCEPT ![p] = "connect"]
    /\ i' = [i EXCEPT ![p] = @ + 1]
    /\ UNCHANGED <<env, globalPool, mu, poolVars, arg, pooled, ret, connErr, sessionVars, historyVars, procVars>>
Backoff(p) ==
    /\ pc[p] = "sleep"
    /\ pc' = [pc EXCEPT ![p] = "connect"]
    /\ i' = [i EXCEPT ![p] = @ + 1]
    /\ UNCHANGED <<env, globalPool, mu, poolVars, arg, pooled, ret, connErr, sessionVars, historyVars, procVars>>

\* The sleep where its length is not recorded.
Sleep(p) ==
    /\ Backoff(p)
    /\ UNCHANGED obs

\* Durations are in milliseconds, the jitter factor r in permille.
baseDelay == 5000
maxSleep == 30000
\* r = rand.Float64()*0.4 + 0.8: sample points of [0.8, 1.2], both ends included
\* (the sum rounds to 1.2 for the largest Float64 below 1).
Jitters == {800, 900, 1000, 1100, 1200}

\* newClientDirect, lines 82-94: sleepDuration for loop index n and jitter r.
sleepDuration_CapBeforeJitter(n, r) ==
    LET backoff == baseDelay * 2^n
        capped == IF backoff > maxSleep THEN maxSleep ELSE backoff
    IN  (capped * r) \div 1000
sleepDuration(n, r) ==
    LET backoff == baseDelay * 2^n
        d == (backoff * r) \div 1000
    IN  IF d > maxSleep THEN maxSleep ELSE d

\* New(config) observed: a new call, nothing observed of it yet.
FactoryCallNew(p, c) ==
    /\ NewCall(p, c)
    /\ obs' = NoObs

\* One kuma.New attempt observed, with the error kinds told apart.
FactoryConnect(p) ==
    \E e \in {"nil"} \cup ErrKinds :
        /\ ConnectWith(p, e)
        /\ obs' = [obs EXCEPT !.attempts = @ + 1,
                              !.fails = IF e = "nil" THEN @ ELSE @ + 1,
                              !.firstErr = IF @ = "nil" THEN e ELSE @,
                              !.lastErr = e,
                              !.lastSession = IF e = "nil" THEN nextSession' ELSE Nil,
                              !.returned = IF pc'[p] = "sleep" THEN "none"
                                           ELSE IF e = "nil" THEN "session"
                                           ELSE "error"]

\* One time.Sleep observed, with its length.
FactorySleep(p) ==
    \E r \in Jitters :
        /\ Backoff(p)
        /\ obs' = [obs EXCEPT !.sleeps = @ + 1,
                              !.sleepMs = sleepDuration(i[p], r),
                              !.jitter = r]

\* ------------------------------------------------------------------ pool.go
\* A caller issues GetGlobalPool().Release().
CallRelease(p) ==
    /\ pc[p] = "idle"
    /\ ops < MaxOps
    /\ ops' = ops + 1
    /\ globalPool' = TRUE
    /\ pc' = [pc EXCEPT ![p] = "Release"]
    /\ UNCHANGED <<env, mu, poolVars, arg, i, pooled, ret, sessionVars, factoryCalls, epochLogins, acq, raced, misuse, connErr, obs, procVars>>

\* Pool.Release, lines 84-91.
Release_NoGuard(p) ==
    /\ pc[p] = "Release"
    /\ MuFree
    /\ refs' = refs - 1
    /\ misuse' = (misuse \/ acq[p] = 0)
    /\ acq' = [acq EXCEPT ![p] = IF @ > 0 THEN @ - 1 ELSE @]
    /\ pc' = [pc EXCEPT ![p] = "idle"]
    /\ ret' = [ret EXCEPT ![p] = Result("released", Nil)]
    /\ UNCHANGED <<env, globalPool, mu, client, config, arg, i, pooled, sessionVars, ops, factoryCalls, epochLogins, raced, connErr, obs, procVars>>
Release_ClosesAtZero(p) ==
    /\ pc[p] = "Release"
    /\ MuFree
    /\ refs' = IF refs > 0 THEN refs - 1 ELSE refs
    /\ IF refs = 1 /\ client # Nil
       THEN /\ disc' = [disc EXCEPT ![client] = @ + 1]
            /\ client' = Nil
            /\ config' = Nil
            /\ epochLogins' = 0
       ELSE UNCHANGED <<disc, client, config, epochLogins>>
    /\ misuse' = (misuse \/ acq[p] = 0)
    /\ acq' = [acq EXCEPT ![p] = IF @ > 0 THEN @ - 1 ELSE @]
    /\ pc' = [pc EXCEPT ![p] = "idle"]
    /\ ret' = [ret EXCEPT ![p] = Result("released", Nil)]
    /\ UNCHANGED <<env, globalPool, mu, arg, i, pooled, nextSession, lastDiscErr, ops, factoryCalls, raced, connErr, obs, procVars>>
Release(p) ==
    /\ pc[p] = "Release"
    /\ MuFree
    /\ refs' = IF refs > 0 THEN refs - 1 ELSE refs
    /\ misuse' = (misuse \/ acq[p] = 0)
    /\ acq' = [acq EXCEPT ![p] = IF @ > 0 THEN @ - 1 ELSE @]
    /\ pc' = [pc EXCEPT ![p] = "idle"]
    /\ ret' = [ret EXCEPT ![p] = Result("released", Nil)]
    /\ UNCHANGED <<env, globalPool, mu, client, config, arg, i, pooled, sessionVars, ops, factoryCalls, epochLogins, raced, connErr, obs, procVars>>

\* A caller issues CloseGlobalPool(), lines 112-120: nothing to do when the
\* global pool was never constructed, else Pool.Close().
CallCloseGlobalPool_Constructs(p) ==
    /\ pc[p] = "idle"
    /\ ops < MaxOps
    /\ ops' = ops + 1
    /\ globalPool' = TRUE
    /\ pc' = [pc EXCEPT ![p] = "Close"]
    /\ UNCHANGED <<env, mu, poolVars, arg, i, pooled, ret, sessionVars, factoryCalls, epochLogins, acq, raced, misuse, connErr, obs, procVars>>
CallCloseGlobalPool(p) ==
    /\ pc[p] = "idle"
    /\ ops < MaxOps
    /\ ops' = ops + 1
    /\ IF globalPool
       THEN /\ pc' = [pc EXCEPT ![p] = "Close"]
            /\ UNCHANGED ret
       ELSE /\ ret' = [ret EXCEPT ![p] = Result("closed_nil", Nil)]
            /\ UNCHANGED pc
    /\ UNCHANGED <<env, globalPool, mu, poolVars, arg, i, pooled, sessionVars, factoryCalls, epochLogins, acq, raced, misuse, connErr, obs, procVars>>

\* Pool.Close, lines 95-108.  Client.Disconnect may return an error or nil.
Close_KeepsSlotOnError(p) ==
    /\ pc[p] = "Close"
    /\ MuFree
    /\ IF client # Nil
       THEN \E err \in BOOLEAN :
              /\ disc' = [disc EXCEPT ![client] = @ + 1]
              /\ lastDiscErr' = err
              /\ IF err
                 THEN UNCHANGED <<client, config, refs, epochLogins>>
                 ELSE /\ client' = Nil
                      /\ config' = Nil
                      /\ refs' = 0
                      /\ epochLogins' = 0
              /\ misuse' = (misuse \/ SumAcq(Callers) > 0)
              /\ ret' = [ret EXCEPT ![p] =
                            Result(IF err THEN "closed_err" ELSE "closed_nil", Nil)]
       ELSE /\ ret' = [ret EXCEPT ![p] = Result("closed_nil", Nil)]
            /\ UNCHANGED <<poolVars, disc, lastDiscErr, epochLogins, misuse>>
    /\ pc' = [pc EXCEPT ![p] = "idle"]
    /\ UNCHANGED <<env, globalPool, mu, arg, i, pooled, nextSession, ops, factoryCalls, acq, raced, connErr, obs, procVars>>
Close_OnlyAtZeroRefs(p) ==
    /\ pc[p] = "Close"
    /\ MuFree
    /\ IF client # Nil /\ refs = 0
       THEN \E err \in BOOLEAN :
              /\ disc' = [disc EXCEPT ![client] = @ + 1]
              /\ lastDiscErr' = err
              /\ client' = Nil
              /\ config' = Nil
              /\ refs' = 0
              /\ epochLogins' = 0
              /\ misuse' = (misuse \/ SumAcq(Callers) > 0)
              /\ ret' = [ret EXCEPT ![p] =
                            Result(IF err THEN "closed_err" ELSE "closed_nil", Nil)]
       ELSE /\ ret' = [ret EXCEPT ![p] = Result("closed_nil", Nil)]
            /\ UNCHANGED <<poolVars, disc, lastDiscErr, epochLogins, misuse>>
    /\ pc' = [pc EXCEPT ![p] = "idle"]
    /\ UNCHANGED <<env, globalPool, mu, arg, i, pooled, nextSession, ops, factoryCalls, acq, raced, connErr, obs, procVars>>
Close(p) ==
    /\ pc[p] = "Close"
    /\ MuFree
    /\ IF client # Nil
       THEN \E err \in BOOLEAN :
              /\ disc' = [disc EXCEPT ![client] = @ + 1]
              /\ lastDiscErr' = err
              /\ client' = Nil
              /\ config' = Nil
              /\ refs' = 0
              /\ epochLogins' = 0
              /\ misuse' = (misuse \/ SumAcq(Callers) > 0)
              /\ ret' = [ret EXCEPT ![p] =
                            Result(IF err THEN "closed_err" ELSE "closed_nil", Nil)]
       ELSE /\ ret' = [ret EXCEPT ![p] = Result("closed_nil", Nil)]
            /\ UNCHANGED <<poolVars, disc, lastDiscErr, epochLogins, misuse>>
    /\ pc' = [pc EXCEPT ![p] = "idle"]
    /\ UNCHANGED <<env, globalPool, mu, arg, i, pooled, nextSession, ops, factoryCalls, acq, raced, connErr, obs, procVars>>

\* ------------------------------------------------------------ specification
Next ==
    \E p \in Callers :
        \/ \E c \in ConfigIds : CallNew(p, c)
        \/ \E c \in ConfigIds : CallGetOrCreate(p, c)
        \/ GetOrCreate(p)
        \/ Connect(p)
        \/ Sleep(p)
        \/ CallRelease(p)
        \/ Release(p)
        \/ CallCloseGlobalPool(p)
        \/ Close(p)

Spec == Init /\ [][Next]_vars

\* ------------------------------------------- GetGlobalPool step by step
\* A caller issues GetGlobalPool(), lines 29-34.
CallGetGlobalPool(p) ==
    /\ pc[p] = "idle"
    /\ ops < MaxOps
    /\ ops' = ops + 1
    /\ pc' = [pc EXCEPT ![p] = "GetGlobalPool"]
    /\ UNCHANGED <<env, globalPool, mu, poolVars, arg, i, pooled, ret, connErr, sessionVars,
                   factoryCalls, epochLogins, acq, raced, misuse, obs, procVars>>

\* return globalPool, line 33.  In a result of kind "pool" the second field
\* is the number of the Pool instance returned (Nil: the nil pointer).
\* g and n are globalPool and pools at the return.
ReturnPool(p, g, n) ==
    /\ pc' = [pc EXCEPT ![p] = "idle"]
    /\ ret' = [ret EXCEPT ![p] = Result("pool", IF g THEN n ELSE Nil)]

\* globalPoolOnce.Do(f), line 30: the first caller executes f; a caller that
\* arrives while f is being executed waits until it has returned; afterwards
\* Do returns at once.
OnceDo_CheckThenAct(p) ==
    /\ pc[p] = "GetGlobalPool"
    /\ IF ~globalPool
       THEN /\ pc' = [pc EXCEPT ![p] = "construct"]
            /\ UNCHANGED ret
       ELSE ReturnPool(p, globalPool, pools)
    /\ UNCHANGED <<env, globalPool, mu, poolVars, arg, i, pooled, connErr, sessionVars,
                   historyVars, obs, procVars>>
OnceDo(p) ==
    /\ pc[p] = "GetGlobalPool"
    /\ globalPoolOnce # "running"
    /\ IF globalPoolOnce = "new"
       THEN /\ globalPoolOnce' = "running"
            /\ pc' = [pc EXCEPT ![p] = "construct"]
            /\ UNCHANGED ret
       ELSE /\ ReturnPool(p, globalPool, pools)
            /\ UNCHANGED globalPoolOnce
    /\ UNCHANGED <<env, globalPool, mu, poolVars, arg, i, pooled, connErr, sessionVars,
                   historyVars, obs, pools, main, read, auth, mon>>

\* globalPool = &Pool{}, line 31, the end of Do and the return of line 33.
Construct(p) ==
    /\ pc[p] = "construct"
    /\ pools' = pools + 1
    /\ globalPool' = TRUE
    /\ globalPoolOnce' = "done"
    /\ ReturnPool(p, TRUE, pools + 1)
    /\ UNCHANGED <<env, mu, poolVars, arg, i, pooled, connErr, sessionVars,
                   historyVars, obs, main, read, auth, mon>>

\* The callers get the pool with GetGlobalPool() first and use it when the
\* call has returned (the GetGlobalPool() inside GetOrCreate, Release and
\* CloseGlobalPool then returns at once); CloseGlobalPool reads globalPool
\* itself and can be called at any time.
OnceConfigs == {1}

NextOnce ==
    \E p \in Callers :
        \/ CallGetGlobalPool(p)
        \/ OnceDo(p)
        \/ Construct(p)
        \/ \E c \in OnceConfigs : globalPoolOnce = "done" /\ CallGetOrCreate(p, c)
        \/ GetOrCreate(p)
        \/ Connect(p)
        \/ Sleep(p)
        \/ CallCloseGlobalPool(p)
        \/ Close(p)

SpecOnce == Init /\ [][NextOnce]_vars

\* ------------------------------------------------------------- TestMain
\* provider_test.go TestMain, lines 17-32: os.Setenv, m.Run(), CloseGlobalPool,
\* os.Exit.  The tests that m.Run() runs are the callers; they create clients
\* with New and release them.  CloseGlobalPool is called as caller MainCaller
\* when m.Run() has returned.
MainCaller == 1
TestConfigs == {1, 2}

\* os.Setenv("UPTIMEKUMA_ENABLE_CONNECTION_POOL", "true"), line 20.
MainSetenv ==
    /\ main = "start"
    /\ main' = "run"
    /\ env' = "true"
    /\ UNCHANGED <<globalPool, mu, poolVars, callerVars, sessionVars, historyVars, obs,
                   globalPoolOnce, pools, read, auth, mon>>

\* m.Run(), line 23: a step of a test.
TestStep(p) ==
    /\ main = "run"
    /\ \/ \E c \in TestConfigs : CallNew(p, c)
       \/ GetOrCreate(p)
       \/ Connect(p)
       \/ Sleep(p)
       \/ CallRelease(p)
       \/ Release(p)

\* m.Run() returns, line 23: every test is over.
MainRunReturns ==
    /\ main = "run"
    /\ \A p \in Callers : pc[p] = "idle"
    /\ main' = "cleanup"
    /\ UNCHANGED <<env, globalPool, mu, poolVars, callerVars, sessionVars, historyVars, obs,
                   globalPoolOnce, pools, read, auth, mon>>

\* client.CloseGlobalPool(), line 26.
MainCloseGlobalPool ==
    /\ main = "cleanup"
    /\ \/ CallCloseGlobalPool(MainCaller)
       \/ Close(MainCaller)

\* os.Exit(code), line 32, after CloseGlobalPool has returned.
MainExit ==
    /\ main = "cleanup"
    /\ pc[MainCaller] = "idle"
    /\ ret[MainCaller].kind \in {"closed_nil", "closed_err"}
    /\ main' = "exit"
    /\ UNCHANGED <<env, globalPool, mu, poolVars, callerVars, sessionVars, historyVars, obs,
                   globalPoolOnce, pools, read, auth, mon>>

InitTestMain ==
    /\ env \in EnvValues
    /\ InitPool

NextTestMain ==
    \/ MainSetenv
    \/ \E p \in Callers : TestStep(p)
    \/ MainRunReturns
    \/ MainCloseGlobalPool
    \/ MainExit

SpecTestMain == InitTestMain /\ [][NextTestMain]_vars

\* ------------------------------------------------- StatusPageResource.Read
\* The public groups a kuma call can return for the slug (kumastatuspage
\* PublicGroup: ID, Name, Weight, MonitorList of monitors).
Group1 == [ID |-> 1, Name |-> "a", Weight |-> 1, MonitorList |-> <<[ID |-> 7], [ID |-> 8]>>]
Group2 == [ID |-> 2, Name |-> "b", Weight |-> 2, MonitorList |-> <<>>]
GroupLists == {<<>>, <<Group1>>, <<Group2, Group1>>}

\* Read, lines 423-439: a PublicGroup as PublicGroupModel; the monitor list
\* becomes the list of the monitors' IDs and stays unset (<<>>) when empty.
ToModel(g) ==
    [ID |-> g.ID, Name |-> g.Name, Weight |-> g.Weight,
     MonitorList |-> [j \in 1..Len(g.MonitorList) |-> g.MonitorList[j].ID]]
ToModels(gs) == [k \in 1..Len(gs) |-> ToModel(gs[k])]

StatusPageVars ==
    <<env, globalPool, mu, poolVars, callerVars, sessionVars, historyVars, obs,
      globalPoolOnce, pools, main, auth, mon>>

\* Read is called, lines 303-318: req.State.Get, then GetStatusPage(slug),
\* which returns the page with the groups api (an error ends the Read with
\* the state as it was).
ReadGetStatusPage ==
    /\ read.phase = "idle"
    /\ \E apiErr \in BOOLEAN, api \in GroupLists, cacheErr \in BOOLEAN,
          cachePresent \in BOOLEAN, cache \in GroupLists :
          read' = IF apiErr
                  THEN [read EXCEPT !.before = read.tf]
                  ELSE [read EXCEPT !.phase = "cache", !.before = read.tf, !.sp = api,
                                    !.api = api, !.cacheErr = cacheErr,
                                    !.cachePresent = cachePresent /\ ~cacheErr,
                                    !.cache = IF cachePresent /\ ~cacheErr THEN cache ELSE <<>>]
    /\ UNCHANGED StatusPageVars

\* Read, lines 412-420: GetStatusPages; the page with the slug, when the call
\* succeeds and has one, gives sp.PublicGroupList.
ReadGetStatusPages ==
    /\ read.phase = "cache"
    /\ read' = [read EXCEPT !.phase = "set",
                            !.sp = IF ~read.cacheErr /\ read.cachePresent
                                   THEN read.cache ELSE @]
    /\ UNCHANGED StatusPageVars

\* Read, lines 422-450: the groups found go to data.PublicGroupList, else it
\* keeps what req.State.Get put there; resp.State.Set(data).
ReadSetState ==
    /\ read.phase = "set"
    /\ read' = [read EXCEPT !.phase = "idle",
                            !.tf = IF Len(read.sp) > 0 THEN ToModels(read.sp) ELSE @]
    /\ UNCHANGED StatusPageVars

NextStatusPage ==
    \/ ReadGetStatusPage
    \/ ReadGetStatusPages
    \/ ReadSetState

SpecStatusPage == Init /\ [][NextStatusPage]_vars

\* --------------------------------------------- callers that disconnect too
\* client.go Client.Disconnect, lines 104-109, called by a caller on the
\* client its last New or GetOrCreate returned.
ClientDisconnect(p) ==
    /\ pc[p] = "idle"
    /\ ops < MaxOps
    /\ ret[p].kind = "ok"
    /\ ops' = ops + 1
    /\ disc' = [disc EXCEPT ![ret[p].session] = @ + 1]
    /\ UNCHANGED <<env, globalPool, mu, poolVars, callerVars, nextSession, lastDiscErr,
                   factoryCalls, epochLogins, acq, raced, misuse, obs, procVars>>

NextDisconnect ==
    \/ Next
    \/ \E p \in Callers : ClientDisconnect(p)

SpecDisconnect == Init /\ [][NextDisconnect]_vars

\* --------------------------------------------------- MonitorResource.Update
\* The tags attribute is a list of {tag_id, value}; value may be null.
TagIds == {1, 2}
TagValues == {"null", "a", "b"}
TagModels == [tag_id : TagIds, value : TagValues]
TagLists == UNION {[1..n -> TagModels] : n \in 0..MaxTags}

\* Update, lines 452-455 and 461-464: a null value is sent as "".
ValueString(v) == IF v = "null" THEN "" ELSE v

\* Update, lines 450-466: the map from tag_id to value built by assigning
\* the elements of the list in order, so that the last element with a
\* tag_id gives its value.
TagMap(ts) ==
    [k \in {ts[j].tag_id : j \in DOMAIN ts} |->
        ValueString(ts[CHOOSE j \in DOMAIN ts :
                          /\ ts[j].tag_id = k
                          /\ \A m \in DOMAIN ts : ts[m].tag_id = k => m <= j].value)]

\* The (tag_id, value) pairs a list names, as Create (lines 285-296) sends
\* them: one AddMonitorTag per element.
TagPairs(ts) == {<<ts[j].tag_id, ValueString(ts[j].value)>> : j \in DOMAIN ts}

MonitorFrame ==
    <<env, globalPool, mu, poolVars, callerVars, sessionVars, historyVars, obs,
      globalPoolOnce, pools, main, read, auth>>

\* Update is called, lines 405-429 and 437-466, on a monitor whose remote
\* tags are those of the prior state: Plan.Get, State.Get, UpdateMonitor
\* (err: it fails and the Update ends), then the two maps.  One Update is
\* followed from its call to its return.
UpdateCall ==
    /\ mon.phase = "idle"
    /\ \E st \in TagLists, pl \in TagLists, err \in BOOLEAN :
          mon' = [phase |-> IF err THEN "failed" ELSE "remove",
                  stateTags |-> st, planTags |-> pl, remote |-> TagPairs(st),
                  todo |-> IF err THEN {} ELSE DOMAIN TagMap(st)]
    /\ UNCHANGED MonitorFrame

\* Update, lines 468-476: one iteration of the loop over stateTagMap;
\* the loop takes the keys in any order.  err: the API call fails.
RemoveTag(k) ==
    /\ mon.phase = "remove"
    /\ k \in mon.todo
    /\ LET stateTagMap == TagMap(mon.stateTags)
           planTagMap == TagMap(mon.planTags)
       IN  IF k \notin DOMAIN planTagMap
           THEN \E err \in BOOLEAN :
                   mon' = IF err
                          THEN [mon EXCEPT !.phase = "failed", !.todo = {}]
                          ELSE [mon EXCEPT !.remote = @ \ {<<k, stateTagMap[k]>>},
                                           !.todo = @ \ {k}]
           ELSE mon' = [mon EXCEPT !.todo = @ \ {k}]
    /\ UNCHANGED MonitorFrame

\* Update, line 479: the first loop is over, the second one begins.
BeginAdd ==
    /\ mon.phase = "remove"
    /\ mon.todo = {}
    /\ mon' = [mon EXCEPT !.phase = "add", !.todo = DOMAIN TagMap(mon.planTags)]
    /\ UNCHANGED MonitorFrame

\* Update, lines 479-499: one iteration of the loop over planTagMap: add a
\* tag_id the state map lacks, replace the value of one whose value
\* differs, leave the others.  errDel, errAdd: the API call fails.
AddTag(k) ==
    /\ mon.phase = "add"
    /\ k \in mon.todo
    /\ LET stateTagMap == TagMap(mon.stateTags)
           planTagMap == TagMap(mon.planTags)
           failed(r) == [mon EXCEPT !.phase = "failed", !.todo = {}, !.remote = r]
       IN  IF k \notin DOMAIN stateTagMap
           THEN \E errAdd \in BOOLEAN :
                   mon' = IF errAdd
                          THEN failed(mon.remote)
                          ELSE [mon EXCEPT !.remote = @ \cup {<<k, planTagMap[k]>>},
                                           !.todo = @ \ {k}]
           ELSE IF stateTagMap[k] # planTagMap[k]
           THEN \E errDel, errAdd \in BOOLEAN :
                   mon' = IF errDel
                          THEN failed(mon.remote)
                          ELSE IF errAdd
                          THEN failed(mon.remote \ {<<k, stateTagMap[k]>>})
                          ELSE [mon EXCEPT !.remote = (@ \ {<<k, stateTagMap[k]>>})
                                                         \cup {<<k, planTagMap[k]>>},
                                           !.todo = @ \ {k}]
           ELSE mon' = [mon EXCEPT !.todo = @ \ {k}]
    /\ UNCHANGED MonitorFrame

\* Update, lines 501-519: pause or resume if active changed (err: the call
\* fails), then State.Set with the plan.
FinishUpdate ==
    /\ mon.phase = "add"
    /\ mon.todo = {}
    /\ \E err \in BOOLEAN :
          mon' = [mon EXCEPT !.phase = IF err THEN "failed" ELSE "done"]
    /\ UNCHANGED MonitorFrame

NextMonitor ==
    \/ UpdateCall
    \/ \E k \in TagIds : RemoveTag(k)
    \/ BeginAdd
    \/ \E k \in TagIds : AddTag(k)
    \/ FinishUpdate

SpecMonitor == Init /\ [][NextMonitor]_vars

\* ------------------------------------------------- client.go AuthClient
\* NewAuthClient, lines 162-164, and the literals of lines 176, 189 and 278,
\* in seconds.
minAuthInterval == 2
authMaxRetries == 3
retryBaseDelay == 1
expiryBuffer == 300
tokenValidity == 3300

\* What httpClient.Do brings back: no response at all (a transport error
\* with its text), or a response with a status code, a body and, in a 200
\* body, an access_token that may be empty.  Texts are sequences of words.
Responses ==
    { [kind |-> "response", status |-> 200, body |-> <<>>, accessToken |-> TRUE],
      [kind |-> "response", status |-> 200, body |-> <<>>, accessToken |-> FALSE],
      [kind |-> "response", status |-> 400, body |-> <<"Too", "frequently">>, accessToken |-> FALSE],
      [kind |-> "response", status |-> 401, body |-> <<"Incorrect">>, accessToken |-> FALSE],
      [kind |-> "response", status |-> 502, body |-> <<"upstream", "sent", "400">>, accessToken |-> FALSE],
      [kind |-> "transport", status |-> 0, body |-> <<"connection", "refused">>, accessToken |-> FALSE] }
OkResponse == CHOOSE r \in Responses : r.status = 200 /\ r.accessToken

\* doAuthenticate, lines 255-274: the text of the error returned for the
\* response r; <<>> is the nil error.
authError(r) ==
    IF r.kind = "transport"
    THEN <<"failed", "to", "execute", "auth", "request:">> \o r.body
    ELSE IF r.status # 200
    THEN <<"authentication", "failed", "with", "status", "code", ToString(r.status)>> \o r.body
    ELSE IF ~r.accessToken
    THEN <<"received", "empty", "access", "token">>
    ELSE <<>>

\* refreshToken, line 226: strings.Contains(err.Error(), "400").
IsRateLimit_StatusOnly(e) == Len(e) >= 6 /\ e[5] = "code" /\ e[6] = "400"
IsRateLimit(e) == \E k \in 1..Len(e) : e[k] = "400"

\* GetToken, line 176: token == "" || time.Now().Add(5 min).After(expiry).
NeedsRefresh(t, e, n) == t = 0 \/ n + expiryBuffer > e

\* refreshToken, line 189: a.token != "" && time.Now().Add(5 min).Before(a.tokenExpiry).
StillValid_Never(t, e, n) == FALSE
StillValid(t, e, n) == t # 0 /\ n + expiryBuffer < e

\* refreshToken, line 208: retryBaseDelay * 2^(attempt-1).
backoff(n) == retryBaseDelay * 2^(n - 1)

AuthFrame ==
    <<env, globalPool, mu, poolVars, callerVars, sessionVars, historyVars, obs,
      globalPoolOnce, pools, main, read, mon>>

\* A return of GetToken by goroutine g with result r: the locals are gone.
AuthReturn(g, r) ==
    [auth EXCEPT !.pc[g] = "idle", !.tok[g] = 0, !.expiry[g] = ZeroTime,
                 !.attempt[g] = 0, !.lastErr[g] = <<>>, !.wake[g] = ZeroTime,
                 !.cancelled[g] = FALSE,
                 !.ret[g] = r]

\* A goroutine calls GetToken(ctx) with a context of its own.
CallGetToken(g) ==
    /\ auth.pc[g] = "idle"
    /\ auth.calls < MaxOps
    /\ auth' = [auth EXCEPT !.pc[g] = "GetToken", !.calls = @ + 1, !.sent[g] = 0]
    /\ UNCHANGED AuthFrame

\* GetToken, lines 170-173: read token and expiry under the read lock.
GetTokenRead(g) ==
    /\ auth.pc[g] = "GetToken"
    /\ auth.mutex = Nil
    /\ auth' = [auth EXCEPT !.pc[g] = "check", !.tok[g] = auth.token,
                            !.expiry[g] = auth.tokenExpiry]
    /\ UNCHANGED AuthFrame

\* GetToken, lines 176-180: return the copy read, or go and refresh.
GetTokenCheck(g) ==
    /\ auth.pc[g] = "check"
    /\ auth' = IF NeedsRefresh(auth.tok[g], auth.expiry[g], auth.now)
               THEN [auth EXCEPT !.pc[g] = "refreshToken"]
               ELSE AuthReturn(g, AuthResult("token", auth.tok[g], <<>>, 0))
    /\ UNCHANGED AuthFrame

\* refreshToken, lines 185-202: Lock (deferred Unlock), the second look at
\* the token, and the wait that keeps minAuthInterval since lastAuthAttempt.
RefreshLock(g) ==
    /\ auth.pc[g] = "refreshToken"
    /\ auth.mutex = Nil
    /\ auth' = IF StillValid(auth.token, auth.tokenExpiry, auth.now)
               THEN AuthReturn(g, AuthResult("token", auth.token, <<>>, 0))
               ELSE LET timeSinceLastAttempt == auth.now - auth.lastAuthAttempt
                    IN  IF timeSinceLastAttempt < minAuthInterval
                        THEN [auth EXCEPT !.mutex = g, !.pc[g] = "minwait",
                                 !.wake[g] = auth.now + (minAuthInterval - timeSinceLastAttempt)]
                        ELSE [auth EXCEPT !.mutex = g, !.pc[g] = "attempt"]
    /\ UNCHANGED AuthFrame

\* The selects of lines 197-201 and 209-213: time.After fires.
TimerFires(g) ==
    /\ auth.pc[g] \in {"minwait", "backoff"}
    /\ auth.now >= auth.wake[g]
    /\ auth' = [auth EXCEPT !.pc[g] = "attempt", !.wake[g] = ZeroTime]
    /\ UNCHANGED AuthFrame

\* The selects of lines 197-201 and 209-213: ctx.Done() is ready, the call
\* returns ctx.Err() and the deferred Unlock runs.
CtxDone_KeepsLock(g) ==
    /\ auth.pc[g] \in {"minwait", "backoff"}
    /\ auth.cancelled[g]
    /\ auth' = AuthReturn(g, AuthResult("ctx", 0, <<"context", "canceled">>, 0))
    /\ UNCHANGED AuthFrame
CtxDone(g) ==
    /\ auth.pc[g] \in {"minwait", "backoff"}
    /\ auth.cancelled[g]
    /\ auth' = [AuthReturn(g, AuthResult("ctx", 0, <<"context", "canceled">>, 0))
                    EXCEPT !.mutex = Nil]
    /\ UNCHANGED AuthFrame

\* refreshToken, lines 216-235, with doAuthenticate: one request, answered
\* by r.  Success stores token and expiry and returns; an error that is a
\* rate limit goes to the backoff unless this was the last attempt; the
\* rest leaves the loop and returns the error of line 235.
AuthenticateWith(g, r) ==
    /\ auth.pc[g] = "attempt"
    /\ LET e == authError(r)
           sent == [auth EXCEPT !.lastAuthAttempt = auth.now, !.requests = @ + 1,
                                !.sent[g] = @ + 1]
           next == auth.attempt[g] + 1
       IN  auth' =
             IF e = <<>>
             THEN [[sent EXCEPT !.token = auth.requests + 1,
                                !.tokenExpiry = auth.now + tokenValidity,
                                !.mutex = Nil]
                      EXCEPT !.pc[g] = "idle", !.attempt[g] = 0, !.lastErr[g] = <<>>,
                             !.cancelled[g] = FALSE,
                             !.ret[g] = AuthResult("token", auth.requests + 1, <<>>, 0)]
             ELSE IF IsRateLimit(e) /\ next <= authMaxRetries
             THEN [sent EXCEPT !.attempt[g] = next, !.lastErr[g] = e, !.pc[g] = "backoff",
                               !.wake[g] = auth.now + backoff(next)]
             ELSE [sent EXCEPT !.mutex = Nil, !.pc[g] = "idle", !.attempt[g] = 0,
                               !.lastErr[g] = <<>>, !.cancelled[g] = FALSE,
                               !.ret[g] = AuthResult("failed", 0, e, authMaxRetries + 1)]
    /\ UNCHANGED AuthFrame

\* With a cancelled context httpClient.Do returns the context's error.
CancelledResponse ==
    [kind |-> "transport", status |-> 0, body |-> <<"context", "canceled">>, accessToken |-> FALSE]

\* The request of g is answered by one of the responses R.
Authenticate(g, R) ==
    \E r \in (IF auth.cancelled[g] THEN {CancelledResponse} ELSE R) :
        AuthenticateWith(g, r)

\* The context of g's call is cancelled.
Cancel(g) ==
    /\ auth.pc[g] # "idle"
    /\ ~auth.cancelled[g]
    /\ auth' = [auth EXCEPT !.cancelled[g] = TRUE]
    /\ UNCHANGED AuthFrame

\* Time passes: a second, or the time after which a fresh token is at its
\* 5-minute buffer.  The clock is followed for ShortSpan seconds after the
\* start and after the one long step.
LongStep == tokenValidity - expiryBuffer
ShortSpan == minAuthInterval + backoff(1) + backoff(2) + backoff(3) + 1
Tick(d) ==
    /\ IF d = LongStep
       THEN auth.now - StartTime < LongStep
       ELSE (auth.now - StartTime) % LongStep < ShortSpan
    /\ auth' = [auth EXCEPT !.now = @ + d]
    /\ UNCHANGED AuthFrame

\* The goroutines G call GetToken, the server answers with responses from
\* R, the clock advances by steps from D.
NextAuth(G, R, D) ==
    \/ \E d \in D : Tick(d)
    \/ \E g \in G :
          \/ CallGetToken(g)
          \/ GetTokenRead(g)
          \/ GetTokenCheck(g)
          \/ RefreshLock(g)
          \/ Authenticate(g, R)

\* One goroutine, every response, contexts that get cancelled.
AuthCaller == 1
NextAuthRetry ==
    \/ NextAuth({AuthCaller}, Responses, {1})
    \/ TimerFires(AuthCaller)
    \/ CtxDone(AuthCaller)
    \/ Cancel(AuthCaller)

SpecAuthRetry == Init /\ [][NextAuthRetry]_vars

\* One goroutine, every response, cancelled contexts, and time enough for
\* a token to expire.
NextAuthFail ==
    \/ NextAuth({AuthCaller}, Responses, {1, LongStep})
    \/ TimerFires(AuthCaller)
    \/ CtxDone(AuthCaller)
    \/ Cancel(AuthCaller)

SpecAuthFail == Init /\ [][NextAuthFail]_vars

\* Every goroutine, a server that issues tokens, no long pause.
NextAuthBurst == NextAuth(Callers, {OkResponse}, {1})

SpecAuthBurst == Init /\ [][NextAuthBurst]_vars

\* Every goroutine, a server that issues tokens (now and then an empty
\* one), and time enough for a token to expire.
ExpiryResponses == {r \in Responses : r.status = 200}
NextAuthExpiry ==
    \/ NextAuth(Callers, ExpiryResponses, {1, LongStep})
    \/ \E g \in Callers : TimerFires(g)

SpecAuthExpiry == Init /\ [][NextAuthExpiry]_vars

\* ------------------------------------- callers that write their Config
\* pool.go line 65 stores the caller's *Config, not a copy of the Config:
\* Pool.config and the caller's pointer name one object, whose fields
\* (client.go lines 18-23) are exported.  The code that holds the pointer
\* assigns the fields of CfgTable[c] to the object; configMatches, reading
\* p.config.BaseURL, p.config.Username and p.config.Password, sees them.
ConfigWrite(c) ==
    /\ client # Nil
    /\ config # Nil
    /\ config # c
    /\ config' = c
    /\ UNCHANGED <<env, globalPool, mu, client, refs, callerVars, sessionVars,
                   historyVars, obs, procVars>>

NextAlias ==
    \/ Next
    \/ \E c \in ConfigIds : ConfigWrite(c)

SpecAlias == Init /\ [][NextAlias]_vars

\* ------------------------------------------------- contention for the lock
\* Two callers contend for the pool with GetOrCreate (the same config, or
\* one with another password), Release and CloseGlobalPool.
ContendingCallers == {p \in Callers : p <= 2}
ContendingConfigs == {1, 3}

NextContend ==
    \E p \in ContendingCallers :
        \/ \E c \in ContendingConfigs : CallGetOrCreate(p, c)
        \/ GetOrCreate(p)
        \/ Connect(p)
        \/ Sleep(p)
        \/ CallRelease(p)
        \/ Release(p)
        \/ CallCloseGlobalPool(p)
        \/ Close(p)

\* Every caller's goroutine keeps running: kuma.New returns and time.Sleep
\* ends (weak fairness), and a caller waiting in p.mu.Lock() gets the mutex
\* when it is released again and again (sync.Mutex hands the lock to a
\* starving waiter: strong fairness).
SpecFair ==
    /\ Init
    /\ [][NextContend]_vars
    /\ \A p \in ContendingCallers :
          /\ WF_vars(Connect(p))
          /\ WF_vars(Sleep(p))
          /\ SF_vars(GetOrCreate(p))
          /\ SF_vars(Release(p))
          /\ SF_vars(Close(p))

\* ------------------------------------------------------ the factory observed
\* One caller creates sessions with New, pooled (config 1, flag set) and
\* direct (config 2, flag unset and the environment variable unset).
FactoryCaller == 1
FactoryConfigs == {1, 2}

InitFactory ==
    /\ env = ""
    /\ InitPool

NextFactory ==
    \/ \E c \in FactoryConfigs : FactoryCallNew(FactoryCaller, c)
    \/ GetOrCreate(FactoryCaller)
    \/ FactoryConnect(FactoryCaller)
    \/ FactorySleep(FactoryCaller)

SpecFactory == InitFactory /\ [][NextFactory]_vars

\* The caller's goroutine keeps running: a lock that is free is taken, a
\* kuma.New call returns and a time.Sleep ends.
SpecFactoryFair ==
    /\ SpecFactory
    /\ WF_vars(GetOrCreate(FactoryCaller))
    /\ WF_vars(FactoryConnect(FactoryCaller))
    /\ WF_vars(FactorySleep(FactoryCaller))

\* ------------------------------------------- pooled and direct callers mixed
\* The environment variable is unset: New with the flag set (config 1) goes to
\* the pool, New without it (config 2) connects directly, and the callers
\* release and close the pool too.
NextMixed ==
    \E p \in Callers :
        \/ \E c \in FactoryConfigs : CallNew(p, c)
        \/ GetOrCreate(p)
        \/ Connect(p)
        \/ Sleep(p)
        \/ CallRelease(p)
        \/ Release(p)
        \/ CallCloseGlobalPool(p)
        \/ Close(p)

SpecMixed == InitFactory /\ [][NextMixed]_vars

\* ------------------------------------------------------------ New observed
\* Callers create sessions with New only, under any value of the environment
\* variable.
InitNew ==
    /\ env \in EnvValues
    /\ InitPool

NextNew ==
    \E p \in Callers :
        \/ \E c \in NewConfigs : CallNew(p, c)
        \/ GetOrCreate(p)
        \/ Connect(p)
        \/ Sleep(p)

SpecNew == InitNew /\ [][NextNew]_vars

\* ------------------------------------------------------------------- steps
\* Caller p runs the body of GetOrCreate (it got the mutex).
AcquireStep(p) == pc[p] = "GetOrCreate" /\ pc'[p] # "GetOrCreate"
\* Caller p runs Release.
ReleaseStep(p) == pc[p] = "Release" /\ pc'[p] = "idle"
\* Caller p runs Close.
CloseStep(p) == pc[p] = "Close" /\ pc'[p] = "idle"
\* The newClientDirect call that GetOrCreate made for caller p returns an error.
PooledFactoryFails(p) ==
    /\ pc[p] = "connect"
    /\ pooled[p]
    /\ pc'[p] = "idle"
    /\ nextSession' = nextSession

\* ------------------------------------------------------------------ claims
\* C1: when all M callers are inside acquire at the same time against the
\* EMPTY slot and every one of them gets a session back (the Factory call
\* succeeded), exactly one Factory invocation and one connect happened in
\* total, every caller holds the pooled session and the refcount is M.
C1_AllAcquiredConcurrently ==
    /\ raced
    /\ ops = NumCallers
    /\ \A p \in Callers : pc[p] = "idle" /\ ret[p].kind = "ok"
C1_ConcurrentAcquireOneFactoryCall ==
    C1_AllAcquiredConcurrently =>
        /\ factoryCalls = 1
        /\ nextSession = 1
        /\ refs = NumCallers
        /\ client # Nil
        /\ \A p \in Callers : ret[p].session = client
C1_Witness ==
    /\ NumCallers >= 2
    /\ C1_AllAcquiredConcurrently
    /\ refs = NumCallers

\* C2: an acquire on a HELD slot with a config that is not equivalent to the
\* stored one returns the config-mismatch error at once, starts no Factory
\* call and no connect, and leaves session, config and refcount as they
\* were, whatever the refcount.
C2_MismatchLeavesSlotUntouched ==
    [][\A p \in Callers :
         (AcquireStep(p) /\ client # Nil /\ config # Nil /\ ~Equivalent(config, arg[p]))
            => /\ ret'[p] = Result("config_mismatch", Nil)
               /\ pc'[p] = "idle"
               /\ UNCHANGED <<client, config, refs>>
               /\ UNCHANGED <<mu, factoryCalls, nextSession, disc>>]_vars
C2_Witness ==
    /\ client # Nil
    /\ refs = 0
    /\ \E p \in Callers : pc[p] = "idle" /\ ret[p].kind = "config_mismatch"

\* C3: the refcount is never negative; a release decrements it only when
\* it is positive, and at refcount 0 it leaves the slot as it was.
C3_RefsNeverNegative ==
    /\ [](refs >= 0)
    /\ [][\A p \in Callers :
            ReleaseStep(p)
               => /\ refs' = (IF refs > 0 THEN refs - 1 ELSE 0)
                  /\ (refs = 0 => UNCHANGED <<client, config, refs>>)]_vars
\* One session was ever pooled and is still held, every acquisition has been
\* released and one more release than that was made: it ran at refcount 0.
C3_Witness ==
    /\ client # Nil
    /\ factoryCalls = 1
    /\ refs = 0
    /\ misuse
    /\ SumAcq(Callers) = 0

\* C4: a release never closes the pooled session: it leaves the session and
\* its config in the slot and calls no disconnect, also when it brings the
\* refcount to 0; the session in the slot is one never disconnected.
C4_ReleaseNeverCloses ==
    /\ [](client # Nil => disc[client] = 0)
    /\ [][\A p \in Callers :
            ReleaseStep(p) => UNCHANGED <<client, config, disc, lastDiscErr, nextSession>>]_vars
C4_Witness ==
    /\ client # Nil
    /\ config # Nil
    /\ refs = 0
    /\ disc[client] = 0
    /\ ~misuse
    /\ \E p \in Callers : ret[p].kind = "released"

\* C5: Close on an EMPTY slot returns nil and changes nothing; Close on a
\* HELD slot calls disconnect exactly once, on the held session, whatever
\* the refcount, and empties the slot; an acquire on the EMPTY slot invokes
\* the Factory, and the session it stores is a new one.
C5_CloseResetsSlot ==
    [][\A p \in Callers :
         /\ (CloseStep(p) /\ client = Nil)
               => /\ ret'[p] = Result("closed_nil", Nil)
                  /\ UNCHANGED <<client, config, refs, disc, nextSession>>
         /\ (CloseStep(p) /\ client # Nil)
               => /\ disc' = [disc EXCEPT ![client] = @ + 1]
                  /\ client' = Nil
                  /\ config' = Nil
                  /\ refs' = 0
         /\ (AcquireStep(p) /\ client = Nil)
               => /\ pc'[p] = "connect"
                  /\ factoryCalls' = factoryCalls + 1
         /\ (pc[p] = "connect" /\ pooled[p] /\ client' # client)
               => /\ client' = nextSession + 1
                  /\ nextSession' = nextSession + 1
                  /\ disc[client'] = 0]_vars
C5_Witness ==
    /\ client # Nil
    /\ factoryCalls = 2
    /\ \E s \in Sessions : s # client /\ disc[s] = 1

\* C6: when Close runs on a HELD slot and the disconnect returns an error,
\* Close returns the error and the slot is EMPTY all the same; a Close on
\* the EMPTY slot returns nil and calls no disconnect, so no session is
\* disconnected twice.
C6_CloseResetsOnDisconnectError ==
    /\ [](\A s \in Sessions : disc[s] <= 1)
    /\ [][\A p \in Callers :
            /\ (CloseStep(p) /\ client # Nil /\ lastDiscErr')
                  => /\ ret'[p] = Result("closed_err", Nil)
                     /\ client' = Nil
                     /\ config' = Nil
                     /\ refs' = 0
            /\ (CloseStep(p) /\ client # Nil /\ ~lastDiscErr')
                  => ret'[p] = Result("closed_nil", Nil)
            /\ (CloseStep(p) /\ client = Nil)
                  => /\ ret'[p] = Result("closed_nil", Nil)
                     /\ disc' = disc]_vars
\* Caller q acquired the only session ever created, p's Close returned the
\* disconnect error, and q's later Close returned nil.
C6_Witness ==
    \E p, q \in Callers :
        /\ p # q
        /\ ret[p].kind = "closed_err"
        /\ ret[q].kind = "closed_nil"
        /\ acq[q] = 1
        /\ nextSession = 1
        /\ disc[1] = 1
        /\ lastDiscErr
        /\ client = Nil
        /\ config = Nil
        /\ refs = 0

\* C7: an acquire on a HELD slot with an equivalent config returns the held
\* session, adds exactly 1 to the refcount and starts no Factory call and
\* no connect, at every refcount; so the pool has made exactly one
\* successful connect while the slot is HELD and none while it is EMPTY.
C7_HeldAcquireReusesSession ==
    /\ [](epochLogins = (IF client # Nil THEN 1 ELSE 0))
    /\ [][\A p \in Callers :
            (AcquireStep(p) /\ client # Nil /\ config # Nil /\ Equivalent(config, arg[p]))
               => /\ ret'[p] = Result("ok", client)
                  /\ pc'[p] = "idle"
                  /\ refs' = refs + 1
                  /\ UNCHANGED <<client, config, mu, factoryCalls, nextSession>>]_vars
\* Two acquires, the second issued after the first had returned.
C7_Witness ==
    /\ client # Nil
    /\ ops = 2
    /\ refs = 2
    /\ ~raced
    /\ factoryCalls = 1
    /\ nextSession = 1

\* C8: when the Factory call made by an acquire on the EMPTY slot fails,
\* the acquire returns the wrapped error, releases the mutex and leaves the
\* slot EMPTY; the next acquire on the EMPTY slot invokes the Factory
\* again instead of returning at once.
C8_FailedCreateLeavesSlotEmpty ==
    [][\A p \in Callers :
         /\ PooledFactoryFails(p)
               => /\ ret'[p].kind = "pooled_connection_failed"
                  /\ ret'[p].session = Nil
                  /\ client' = Nil
                  /\ config' = Nil
                  /\ refs' = 0
                  /\ mu' = Nil
         /\ (AcquireStep(p) /\ client = Nil)
               => /\ pc'[p] = "connect"
                  /\ pooled'[p]
                  /\ i'[p] = 0
                  /\ ret'[p] = ret[p]
                  /\ factoryCalls' = factoryCalls + 1]_vars
C8_Witness ==
    /\ client # Nil
    /\ factoryCalls = 2
    /\ nextSession = 1
    /\ \E p \in Callers : ret[p].kind = "pooled_connection_failed"

\* C9, as claimed: in every reachable state the refcount equals the number
\* of acquisitions not yet released.
C9_RefsEqualHolders == refs = SumAcq(Callers)
\* C9, amended: the refcount equals the number of acquisitions not yet
\* released as long as every release was made by a caller holding one and
\* no Close ran while a caller held one.
C9_RefsEqualHoldersUnlessMisused == ~misuse => refs = SumAcq(Callers)
C9_Witness ==
    /\ ~misuse
    /\ ops = 3
    /\ refs = 1
    /\ SumAcq(Callers) = 1
    /\ \E p \in Callers : ret[p].kind = "released"

Min(a, b) == IF a < b THEN a ELSE b
JitterRange == 800..1200

\* C13: with maxRetries = N and every kuma.New failing, newClientDirect makes
\* exactly N+1 attempts and N sleeps, one sleep between two consecutive
\* attempts and none after the last failed one, and returns the
\* exhausted-connection error.
C13_ExhaustedAfterAllAttempts ==
    /\ obs.attempts <= maxRetries + 1
    /\ pc[FactoryCaller] = "connect" => obs.sleeps = obs.attempts
    /\ pc[FactoryCaller] = "sleep" => obs.sleeps = obs.attempts - 1
    /\ obs.returned = "error"
          => /\ obs.fails = maxRetries + 1
             /\ obs.attempts = maxRetries + 1
             /\ obs.sleeps = maxRetries
             /\ pc[FactoryCaller] = "idle"
             /\ ret[FactoryCaller].kind \in {"connect_exhausted", "pooled_connection_failed"}
             /\ ret[FactoryCaller].session = Nil
C13_Witness ==
    /\ obs.returned = "error"
    /\ obs.fails = maxRetries + 1
    /\ obs.sleeps = maxRetries
    /\ ret[FactoryCaller].kind = "connect_exhausted"

\* C14: when kuma.New fails k <= N times and then succeeds, newClientDirect
\* returns the session of attempt k+1 after exactly k sleeps and makes no
\* further attempt.
C14_SuccessAfterKFailures ==
    obs.returned = "session"
       => /\ obs.fails <= maxRetries
          /\ obs.attempts = obs.fails + 1
          /\ obs.sleeps = obs.fails
          /\ pc[FactoryCaller] = "idle"
          /\ ret[FactoryCaller].kind = "ok"
          /\ obs.lastSession # Nil
          /\ ret[FactoryCaller].session = obs.lastSession
          /\ ret[FactoryCaller].cause = "nil"
C14_Witness ==
    /\ obs.returned = "session"
    /\ obs.fails = maxRetries
    /\ obs.sleeps = maxRetries
    /\ ret[FactoryCaller].session = obs.lastSession

\* C15: every sleep is at most 30s and within +/-20% of baseDelay * 2^i, where
\* i is the 0-indexed retry the sleep belongs to.
C15_SleepCappedAndWithinJitter ==
    obs.sleeps > 0
       => /\ obs.sleepMs <= maxSleep
          /\ 10 * obs.sleepMs >= 8 * baseDelay * 2^(obs.sleeps - 1)
          /\ 10 * obs.sleepMs <= 12 * baseDelay * 2^(obs.sleeps - 1)

\* C16 as stated: the sleep before attempt i (0-indexed, i >= 1) is
\* min(30s, baseDelay * 2^i * jitter) for a jitter in [0.8, 1.2].
C16_ExponentIsNextAttempt ==
    (pc[FactoryCaller] = "connect" /\ obs.attempts >= 1)
       => \E r \in JitterRange :
             obs.sleepMs = Min(maxSleep, (baseDelay * 2^(obs.attempts) * r) \div 1000)
\* C16 amended: the sleep before attempt i (0-indexed, i >= 1) is
\* min(30s, baseDelay * 2^(i-1) * jitter) for the jitter drawn, which is in
\* [0.8, 1.2]: the exponent is the index of the attempt that just failed, and
\* the 30s cap is applied after the jitter.
C16_ExponentIsFailedAttempt ==
    (pc[FactoryCaller] = "connect" /\ obs.attempts >= 1)
       => /\ obs.jitter \in JitterRange
          /\ obs.sleepMs
                = Min(maxSleep, (baseDelay * 2^(obs.attempts - 1) * obs.jitter) \div 1000)
C16_Witness ==
    /\ pc[FactoryCaller] = "connect"
    /\ obs.attempts = 4
    /\ obs.jitter = 1200
    /\ obs.sleepMs = maxSleep

\* C17: every error kuma.New returns is retried: a failed attempt that is not
\* the last one is followed by a sleep and another attempt, whatever the kind
\* of the error, and only the attempt with index maxRetries ends the loop.
C17_EveryErrorRetried ==
    [][/\ (pc[FactoryCaller] = "connect" /\ obs'.fails = obs.fails + 1)
          => IF obs.attempts < maxRetries
             THEN pc'[FactoryCaller] = "sleep" /\ obs'.returned = "none"
             ELSE pc'[FactoryCaller] = "idle" /\ obs'.returned = "error"
       /\ pc[FactoryCaller] = "sleep"
          => pc'[FactoryCaller] = "connect" /\ obs'.attempts = obs.attempts
      ]_vars
C17_Witness ==
    /\ pc[FactoryCaller] = "connect"
    /\ obs.lastErr = "auth"
    /\ obs.firstErr = "rate_limit"
    /\ obs.attempts = 2

\* C18: the exhausted-connection error wraps the error of the last, N+1-th
\* attempt and reports N+1 attempts, the number made; newClientDirect returns
\* either a session or an error, never both and never neither.
C18_WrapsLastError ==
    /\ obs.returned = "error"
          => /\ ret[FactoryCaller].cause = obs.lastErr
             /\ ret[FactoryCaller].attempts = obs.attempts
             /\ ret[FactoryCaller].attempts = maxRetries + 1
    /\ obs.returned # "none"
          => (ret[FactoryCaller].session # Nil) # (ret[FactoryCaller].cause # "nil")
C18_Witness ==
    /\ obs.returned = "error"
    /\ obs.firstErr = "auth"
    /\ obs.lastErr = "network"
    /\ ret[FactoryCaller].cause = "network"
\* ------------------------------------------------------- C11, C12, C19, C20
\* Caller p is on the pooled path of New: at or inside Pool.GetOrCreate.
OnPooledPath(p) == pc[p] = "GetOrCreate" \/ (pc[p] \in {"connect", "sleep"} /\ pooled[p])
\* Caller p is on the direct path of New: inside newClientDirect called by New.
OnDirectPath(p) == pc[p] \in {"connect", "sleep"} /\ ~pooled[p]
\* A call of New returned without GetOrCreate or newClientDirect being called.
NewReturnsAtOnce == ops' = ops + 1 /\ pc' = pc

\* C11: New with an empty BaseURL fails at once with the config error: it
\* never reaches GetOrCreate or a connect attempt, makes no sleep, and leaves
\* the pool slot as it was, with pooling enabled or not, slot EMPTY or HELD.
C11_NewRejectsEmptyBaseURL ==
    [][/\ NewReturnsAtOnce
          => /\ \E p \in Callers :
                   /\ ret'[p] = Result("base_url_required", Nil)
                   /\ \A q \in Callers \ {p} : ret'[q] = ret[q]
             /\ UNCHANGED <<globalPool, mu, poolVars, arg, i, pooled, sessionVars, factoryCalls>>
       /\ \A p \in Callers :
             pc'[p] # "idle" => CfgTable[arg'[p]].BaseURL # ""
      ]_vars
C11_Witness ==
    /\ env # "true"
    /\ client # Nil
    /\ refs = 1
    /\ \E p \in Callers : ret[p].kind = "base_url_required"
    /\ \A p \in Callers : pc[p] = "idle"

\* C12: newClientDirect validates its input: no connect attempt and no sleep
\* is ever made for a config with an empty BaseURL, also when the call comes
\* from Pool.GetOrCreate on an EMPTY slot.
C12_FactoryRejectsEmptyBaseURL ==
    \A p \in Callers :
        pc[p] \in {"connect", "sleep"} => CfgTable[arg[p]].BaseURL # ""

\* C19: the flag decides whenever it is set, for both of its values, and the
\* environment variable decides otherwise: New is pooled when the flag is
\* true, and direct when the flag is false, also with the variable at "true".
C19_FlagHasPriority ==
    \A p \in Callers :
        pc[p] # "idle"
           => IF CfgTable[arg[p]].EnableConnectionPool
              THEN OnPooledPath(p)
              ELSE OnDirectPath(p)

\* C20: with the flag false and the environment variable not "true", New
\* leaves the registry alone: each step of a direct call changes nothing of
\* the pool, of its mutex or of the other callers, and the session it returns
\* is a new one, distinct from the pooled one and from every other caller's.
C20_DirectNewLeavesRegistryAlone ==
    [][\A p \in Callers :
         /\ (pc[p] = "idle" /\ pc'[p] # "idle"
                /\ ~CfgTable[arg'[p]].EnableConnectionPool /\ env # "true")
               => /\ OnDirectPath(p)'
                  /\ UNCHANGED <<globalPool, mu, poolVars, sessionVars, factoryCalls>>
         /\ (OnDirectPath(p) /\ pc'[p] # pc[p])
               => /\ UNCHANGED <<globalPool, mu, poolVars, factoryCalls, epochLogins, acq>>
                  /\ \A q \in Callers \ {p} :
                        /\ pc'[q] = pc[q]
                        /\ i'[q] = i[q]
                        /\ ret'[q] = ret[q]
                  /\ (pc'[p] = "idle" /\ ret'[p].kind = "ok")
                        => /\ ret'[p].session # Nil
                           /\ ret'[p].session # client'
                           /\ \A q \in Callers \ {p} : ret'[p].session # ret[q].session
      ]_vars
C20_Witness ==
    /\ env # "true"
    /\ client = Nil
    /\ globalPool = FALSE
    /\ \E p \in Callers : \E q \in Callers \ {p} :
          /\ pc[p] = "idle"
          /\ ret[p].kind = "ok"
          /\ OnDirectPath(q)
          /\ i[q] > 0
\* ------------------------------------------------------------ C22, C27, C28
\* The callers inside the critical section of GetOrCreate, in newClientDirect.
InFactoryUnderLock == {p \in Callers : pooled[p] /\ pc[p] \in {"connect", "sleep"}}
\* The sessions that exist and have not been disconnected.
LiveSessions == {s \in Sessions : s <= nextSession /\ disc[s] = 0}

\* C22: GetOrCreate, Release and Close exclude each other: at most one caller
\* is inside a critical section, it is the holder of the mutex, and while it
\* is inside no other caller completes an operation or changes the slot; a
\* caller never finds the slot half written, and no refcount update is lost.
C22_MutualExclusion ==
    /\ [](/\ Cardinality(InFactoryUnderLock) <= 1
          /\ InFactoryUnderLock = (IF mu = Nil THEN {} ELSE {mu})
          /\ (mu = Nil => ((client = Nil) = (config = Nil) /\ (client = Nil => refs = 0))))
    /\ [][/\ mu # Nil
             => /\ \A q \in Callers \ {mu} :
                      pc[q] \in {"GetOrCreate", "Release", "Close"} => pc'[q] = pc[q]
                /\ poolVars' # poolVars => (pc[mu] = "connect" /\ pc'[mu] = "idle")
          /\ \A p \in Callers :
                (AcquireStep(p) \/ ReleaseStep(p) \/ CloseStep(p))
                   => /\ mu = Nil
                      /\ refs' \in {refs - 1, refs, refs + 1, 0}
                      /\ \A q \in Callers \ {p} : pc'[q] = pc[q] /\ ret'[q] = ret[q]
         ]_vars
\* One caller sleeps in the factory with the mutex held while another waits
\* in Close and the slot is EMPTY.
C22_Witness ==
    \E p \in Callers : \E q \in Callers \ {p} :
        /\ mu = p
        /\ pc[p] = "sleep"
        /\ pc[q] = "Close"
        /\ client = Nil

\* C27: the pool is one slot of consistent shape: a session is stored exactly
\* when a config is stored, an EMPTY slot has refcount 0, and at most one
\* session of the pool exists that Close has not disconnected: the stored one.
C27_SingleSlotShape ==
    /\ (client = Nil) = (config = Nil)
    /\ client = Nil => refs = 0
    /\ Cardinality(LiveSessions) <= 1
    /\ LiveSessions = (IF client = Nil THEN {} ELSE {client})
C27_Witness ==
    /\ client = 2
    /\ config # Nil
    /\ disc[1] = 1
    /\ refs = 1

C25_CreateSessionTerminates ==
    /\ [](/\ obs.attempts <= maxRetries + 1
          /\ obs.sleeps <= maxRetries
          /\ obs.returned \in {"none", "session", "error"}
          /\ obs.returned # "none" => obs.attempts >= 1)
    /\ (pc[FactoryCaller] \in {"connect", "sleep"})
          ~> (pc[FactoryCaller] = "idle" /\ obs.returned \in {"session", "error"})
\* A call that returned a session at its third attempt, after an auth error
\* and a network error.
C25_Witness ==
    /\ obs.returned = "session"
    /\ obs.attempts = 3
    /\ obs.sleeps = 2
    /\ obs.firstErr = "auth"
    /\ obs.lastErr = "nil"
\* ---------------------------------------------------------------------- C23
\* Caller q is at the p.mu.Lock() of GetOrCreate, Release or Close.
AtLock(q) == pc[q] \in {"GetOrCreate", "Release", "Close"}
\* Caller q can take its next step.
CanProceed(q) ==
    ENABLED (GetOrCreate(q) \/ Release(q) \/ Close(q) \/ Connect(q) \/ Sleep(q))

\* C23 as stated: while a caller sleeps between connect attempts, every
\* other caller that is in New, GetOrCreate, Release or Close can proceed.
C23_SleepBlocksNobody ==
    \A p \in Callers :
        pc[p] = "sleep"
           => \A q \in Callers \ {p} : pc[q] # "idle" => CanProceed(q)
\* C23 amended: a sleep of a direct newClientDirect call blocks nobody and no
\* caller inside newClientDirect is ever blocked; a caller at the lock of
\* GetOrCreate, Release or Close waits exactly while another caller is inside
\* the factory loop of a first-time GetOrCreate, sleeps included.
C23_OnlyPooledFactoryBlocks ==
    \A q \in Callers :
        /\ pc[q] \in {"connect", "sleep"} => CanProceed(q)
        /\ AtLock(q) => (CanProceed(q) = (InFactoryUnderLock = {}))
        /\ \A p \in Callers \ {q} :
              (pc[p] = "sleep" /\ ~pooled[p] /\ InFactoryUnderLock = {} /\ pc[q] # "idle")
                 => CanProceed(q)
\* One caller sleeps in a direct call while another is at the lock of
\* GetOrCreate with the slot HELD.
C23_Witness ==
    \E p \in Callers : \E q \in Callers \ {p} :
        /\ pc[p] = "sleep"
        /\ ~pooled[p]
        /\ pc[q] = "GetOrCreate"
        /\ client # Nil
        /\ CanProceed(q)
\* ---------------------------------------------------------------------- C24
\* C24: under fair scheduling no GetOrCreate, Release or Close waits forever:
\* a caller blocked at the lock while another runs the first-time factory
\* loop proceeds once that call is over; a caller that then finds the slot
\* HELD never enters the factory (no connect, no sleep) and, its config being
\* equivalent, returns the held session with the refcount incremented.
C24_BlockedAcquireProceeds ==
    /\ \A q \in ContendingCallers : AtLock(q) ~> (pc[q] = "idle")
    /\ [][\A q \in ContendingCallers :
            (AcquireStep(q) /\ client # Nil)
               => /\ pc'[q] = "idle"
                  /\ UNCHANGED <<factoryCalls, nextSession, mu>>
                  /\ Equivalent(config, arg[q])
                        => /\ ret'[q] = Result("ok", client)
                           /\ refs' = refs + 1
                           /\ client' = client
         ]_vars
\* Both callers hold the one session of the one factory call that was made,
\* the second acquire having been issued while the first was in progress.
C24_Witness ==
    /\ raced
    /\ factoryCalls = 1
    /\ nextSession = 1
    /\ refs = 2
    /\ \A p \in {1, 2} : pc[p] = "idle" /\ ret[p] = Result("ok", client)
\* ---------------------------------------------------------------------- C26
\* C26: a client that a successful New or GetOrCreate on the pool returns is
\* one on which Disconnect has not been called, whatever the callers did
\* before with New, GetOrCreate, Release, Close and Client.Disconnect.
C26_AcquireReturnsLiveSession ==
    [][\A p \in Callers :
         (pc[p] \in {"GetOrCreate", "connect"} /\ pc'[p] = "idle" /\ ret'[p].kind = "ok")
            => disc'[ret'[p].session] = 0
      ]_vars
\* ---------------------------------------------------------------------- C21
\* C21: GetGlobalPool gives every caller the same Pool for the whole life of
\* the process: however first calls interleave exactly one Pool is
\* constructed, and Close and CloseGlobalPool empty that Pool without
\* replacing it.
C21_OnePoolInstance ==
    /\ [](/\ pools <= 1
          /\ globalPool = (pools = 1)
          /\ globalPoolOnce = "done" => globalPool
          /\ \A p \in Callers : ret[p].kind = "pool" => ret[p].session = 1)
    /\ [][/\ globalPool => (globalPool' /\ pools' = pools)
          /\ \A p \in Callers :
                (CloseStep(p) \/ (pc[p] = "idle" /\ ops' = ops + 1 /\ pc' = pc))
                   => UNCHANGED <<globalPool, pools, globalPoolOnce>>
         ]_vars
\* The one Pool was constructed, a session was pooled in it and a later
\* call closed it: the session is disconnected and the slot is EMPTY.
C21_Witness ==
    /\ pools = 1
    /\ globalPool
    /\ client = Nil
    /\ nextSession = 1
    /\ disc[1] = 1
    /\ \E p \in Callers : ret[p].kind \in {"closed_nil", "closed_err"}
\* ---------------------------------------------------------------------- C29
\* C29: in a test run pooling is on before any test creates a client, and
\* after the tests CloseGlobalPool disconnects the pooled session, once, if
\* the pool holds one; where the global pool was never constructed or is
\* EMPTY it changes nothing and returns nil, and it never constructs the
\* pool.
C29_TestRunLifecycle ==
    /\ []((\E p \in Callers : pc[p] # "idle") \/ nextSession > 0 => env = "true")
    /\ [](\A p \in Callers : pc[p] \in {"connect", "sleep"} => pooled[p])
    /\ [](main = "exit"
            => /\ client = Nil /\ config = Nil /\ refs = 0
               /\ \A s \in Sessions : disc[s] = (IF s <= nextSession THEN 1 ELSE 0))
    /\ [][main = "cleanup"
            => /\ globalPool' = globalPool
               /\ pools' = pools
               /\ (~globalPool \/ client = Nil)
                     => /\ UNCHANGED <<poolVars, sessionVars>>
                        /\ pc'[MainCaller] = "idle" /\ main' = main
                              => ret'[MainCaller] = Result("closed_nil", Nil)
               /\ (client # Nil /\ pc[MainCaller] = "Close")
                     => /\ disc' = [disc EXCEPT ![client] = 1]
                        /\ client' = Nil
         ]_vars
\* TestMain is at os.Exit after a run in which a session was pooled: the
\* session has been disconnected once and the slot is EMPTY.
C29_Witness ==
    /\ main = "exit"
    /\ nextSession = 1
    /\ disc[1] = 1
    /\ client = Nil
    /\ globalPool

\* ---------------------------------------------------------------------- C30
\* The group lists that GetStatusPage or the page list returned for the slug
\* in the Read just completed.
GroupsFound ==
    {gs \in {read.api} \cup (IF read.cachePresent THEN {read.cache} ELSE {}) : Len(gs) > 0}

\* C30: when a Read is over, public_group_list in the state is the groups
\* that the API or the cached page list returned for the slug, if either
\* returned any, and is what it was before the Read if no groups were found.
C30_ReadPreservesState ==
    [][(read.phase = "set" /\ read'.phase = "idle")
          => IF GroupsFound # {}
             THEN \E gs \in GroupsFound : read'.tf = ToModels(gs)
             ELSE read'.tf = read.before
      ]_vars

\* ---------------------------------------------------------------------- C31
\* C31: the config the Registry compares acquires against is the one the
\* held session was created with: as long as the same session is held, the
\* endpoint, username and password that configMatches reads stay the same,
\* whatever the caller does with its Config object.
C31_StoredConfigIsCreationConfig ==
    [][(client # Nil /\ client' = client)
          => /\ CfgTable[config'].BaseURL = CfgTable[config].BaseURL
             /\ CfgTable[config'].Username = CfgTable[config].Username
             /\ CfgTable[config'].Password = CfgTable[config].Password
      ]_vars

\* ---------------------------------------------------------------------- C32
\* C32: within one newClientDirect call the sleeps never get shorter, for
\* every jitter drawn at every retry: each sleep is at least as long as the
\* one before it, and after a sleep of 30s every later sleep is 30s.
C32_SleepsNeverDecrease ==
    [][(obs'.sleeps = obs.sleeps + 1 /\ obs.sleeps >= 1)
          => /\ obs'.sleepMs >= obs.sleepMs
             /\ obs.sleepMs = maxSleep => obs'.sleepMs = maxSleep
      ]_vars
\* The fifth sleep of a call has been made, after a fourth one at the cap.
C32_Witness ==
    /\ obs.sleeps = maxRetries
    /\ obs.sleepMs = maxSleep
    /\ obs.jitter = 800
    /\ pc[FactoryCaller] = "connect"

\* ---------------------------------------------------------------------- C33
\* C33: when goroutines call GetToken concurrently with no valid token cached
\* and the first authentication succeeds, one authentication request is
\* sent in all, and every call returns the token it brought.
C33_RefreshIsDeduplicated ==
    /\ auth.requests <= 1
    /\ \A g \in Callers :
          auth.ret[g].kind # "none"
             => /\ auth.requests = 1
                /\ auth.ret[g] = AuthResult("token", auth.token, <<>>, 0)
                /\ auth.token # 0
\* One goroutine has authenticated and returned while another, which found
\* no token in GetToken, is on its way into refreshToken.
C33_Witness ==
    \E g, h \in Callers :
        /\ g # h
        /\ auth.ret[g].kind = "token"
        /\ auth.sent[g] = 1
        /\ auth.pc[h] = "refreshToken"
        /\ auth.tok[h] = 0

\* ---------------------------------------------------------------------- C34
\* The step in which goroutine g decides between the cached token and an
\* authentication: the test of GetToken on the copy it read, or the test of
\* refreshToken under the lock.
CheckStep(g) == auth.pc[g] = "check" /\ auth'.pc[g] # "check"
LockStep(g) == auth.pc[g] = "refreshToken" /\ auth'.pc[g] # "refreshToken"
\* In this step g returns the token t, and no request is sent.
ReturnsCached(g, t) ==
    /\ auth'.pc[g] = "idle"
    /\ auth'.ret[g] = AuthResult("token", t, <<>>, 0)
    /\ auth'.requests = auth.requests
\* A non-empty token t is cached and now plus 5 minutes is not after its expiry e.
CachedAndFresh(t, e) == t # 0 /\ ~(auth.now + expiryBuffer > e)

\* C34: GetToken returns the cached token without an authentication request
\* exactly when a non-empty token is cached and the time plus 5 minutes is
\* not after its expiry; and a token returned is never empty and has at
\* least 5 minutes left of the 55 minutes recorded when it was obtained.
C34_CachedTokenExactlyWhenFresh ==
    [][\A g \in Callers :
          /\ CheckStep(g)
                => (ReturnsCached(g, auth.tok[g]) <=> CachedAndFresh(auth.tok[g], auth.expiry[g]))
          /\ LockStep(g)
                => (ReturnsCached(g, auth.token) <=> CachedAndFresh(auth.token, auth.tokenExpiry))
          /\ (auth.pc[g] # "idle" /\ auth'.pc[g] = "idle" /\ auth'.ret[g].kind = "token")
                => /\ auth'.ret[g].token # 0
                   /\ CheckStep(g) => auth.expiry[g] - auth.now >= expiryBuffer
                   /\ ~CheckStep(g) => auth'.tokenExpiry - auth.now >= expiryBuffer
      ]_vars

\* ---------------------------------------------------------------------- C35
\* In this step g sends an authentication request and gets its answer.
RequestStep(g) == auth.pc[g] = "attempt" /\ auth'.requests = auth.requests + 1
\* The error that request brought (<<>>: none).
RequestError(g) ==
    IF auth'.pc[g] = "backoff" THEN auth'.lastErr[g] ELSE auth'.ret[g].cause
Has400(e) == \E k \in DOMAIN e : e[k] = "400"

C36_RequestsKeepMinInterval ==
    [][\A g \in Callers :
          (RequestStep(g) /\ auth.requests >= 1)
             => auth'.lastAuthAttempt - auth.lastAuthAttempt >= minAuthInterval
      ]_vars

\* ---------------------------------------------------------------------- C37
\* C37: when refreshToken gives up, the number of attempts its error states
\* is the number of authentication requests the call sent.
C37_StatedAttemptsAreRequestsSent ==
    \A g \in Callers :
        (auth.pc[g] = "idle" /\ auth.ret[g].kind = "failed")
           => auth.ret[g].attempts = auth.sent[g]

\* ---------------------------------------------------------------------- C38
\* In this step the GetToken call of g ends with an error.
ErrorReturn(g) ==
    /\ auth.pc[g] # "idle"
    /\ auth'.pc[g] = "idle"
    /\ auth'.ret[g].kind \in {"ctx", "failed"}

\* C38: a refreshToken call that ends in an error leaves token and expiry
\* as they were and unlocks the mutex, so that the next GetToken can read
\* and lock; a context cancelled during one of the two waits ends the call
\* with the context's error and without another request; token and expiry
\* change only when a call returns a token it has just obtained.
C38_ErrorLeavesTokenAndLock ==
    [][\A g \in Callers :
          /\ ErrorReturn(g)
                => /\ auth'.token = auth.token
                   /\ auth'.tokenExpiry = auth.tokenExpiry
                   /\ auth.mutex = g
                   /\ auth'.mutex = Nil
                   /\ auth'.ret[g].token = 0
          /\ (ErrorReturn(g) /\ auth.pc[g] \in {"minwait", "backoff"})
                => /\ auth.cancelled[g]
                   /\ auth'.ret[g].kind = "ctx"
                   /\ auth'.requests = auth.requests
          /\ (ErrorReturn(g) /\ auth'.ret[g].kind = "failed")
                => /\ RequestStep(g)
                   /\ auth'.ret[g].cause # <<>>
          /\ (auth.pc[g] = "attempt" /\ auth'.pc[g] # "idle")
                => /\ auth'.token = auth.token
                   /\ auth'.tokenExpiry = auth.tokenExpiry
      ]_vars
\* A token that had expired was cached, the refresh met a rate limit and
\* was cancelled in its backoff wait: the call has returned the context's
\* error, the old token is still there and the mutex is free.
C38_Witness ==
    /\ auth.pc[AuthCaller] = "idle"
    /\ auth.ret[AuthCaller].kind = "ctx"
    /\ auth.sent[AuthCaller] >= 1
    /\ auth.token # 0
    /\ auth.now + expiryBuffer > auth.tokenExpiry
    /\ auth.mutex = Nil

\* ---------------------------------------------------------------------- C39
\* C39: after a successful Update of a monitor whose remote tags were those
\* of the prior state, the remote monitor carries exactly the (tag_id,
\* value) pairs of the plan, whatever the two lists are, lists naming a
\* tag_id twice with different values included.
C39_RemoteTagsArePlanTags ==
    mon.phase = "done" => mon.remote = TagPairs(mon.planTags)
====
